---- MODULE Spec2Model ----
(***************************************************************************)
(* A model of verify_signature.py: the command-line entry point and        *)
(* verify_pdf_signature, which walks trailer -> /Root -> /AcroForm ->      *)
(* /Fields -> field -> /V of a PDF read with PyPDF2 and prints what it     *)
(* finds.  The PDF is an object table (object number -> value) plus a      *)
(* trailer; the PyPDF2 operations the script uses (d[key], key in d,       *)
(* d.get(key, default), len, get_object) are operators over that table     *)
(* that return either a value or the exception Python raises.              *)
(***************************************************************************)
EXTENDS Integers, Sequences, FiniteSets, TLC

\* ------------------------------------------------------------------ bounds
\* Longest /Fields array of the documents explored.
MaxFields == 2
\* Depth at which the interpreter stops a recursion (RecursionError).  CPython's
\* default is 1000; every acyclic reference chain of the documents explored is
\* shorter than this bound, so only a circular chain reaches it.
RecursionLimit == 4

\* ------------------------------------------------------------- PDF values
Name(s) == [kind |-> "str", s |-> s]
Num(n)  == [kind |-> "num", n |-> n]
Ref(n)  == [kind |-> "ref", n |-> n]
Arr(q)  == [kind |-> "arr", items |-> q]
Dict(m) == [kind |-> "dict", m |-> m]
\* Python's None: what PyPDF2 returns for a reference to an object the file lacks.
None    == [kind |-> "none"]
\* A raised exception, as the result of an operation.
Exc(e)  == [kind |-> "exc", e |-> e]
IsExc(v) == v.kind = "exc"
\* A local variable that has not been assigned.
Unset   == [kind |-> "unset"]

\* ---------------------------------------------- the PyPDF2 / Python operations
RECURSIVE ResolveNoGuard(_, _, _)
\* get_object whose recursion limit yields None instead of raising.
ResolveNoGuard(objs, v, depth) ==
    IF v.kind # "ref" THEN v
    ELSE IF depth >= RecursionLimit THEN None
    ELSE IF v.n \notin DOMAIN objs THEN None
    ELSE ResolveNoGuard(objs, objs[v.n], depth + 1)

RECURSIVE Resolve(_, _, _)
\* x.get_object(): a direct object is itself; an indirect reference is looked up
\* in the reader and the result resolved again (IndirectObject.get_object calls
\* get_object on what it finds), None for an object the file lacks.  A circular
\* chain of references recurses until the interpreter raises RecursionError.
Resolve(objs, v, depth) ==
    IF v.kind # "ref" THEN v
    ELSE IF depth >= RecursionLimit THEN Exc("RecursionError")
    ELSE IF v.n \notin DOMAIN objs THEN None
    ELSE Resolve(objs, objs[v.n], depth + 1)

\* d[key]: DictionaryObject.__getitem__ resolves the stored value; a missing key
\* is a KeyError; subscripting anything else with a string is a TypeError.
GetItem(objs, d, key) ==
    IF d.kind = "dict"
    THEN IF key \in DOMAIN d.m THEN Resolve(objs, d.m[key], 0) ELSE Exc("KeyError")
    ELSE Exc("TypeError")

\* Whether `key in d` raises: a number and None are not iterable.
InRaises(d) == d.kind \in {"num", "none"}
\* key in d: for a dictionary a test of its keys, for an array of its elements.
\* (For a string Python tests for a substring; no document explored has a string
\* where the script applies `in`.)
In(key, d) ==
    CASE d.kind = "dict" -> key \in DOMAIN d.m
      [] d.kind = "arr"  -> \E i \in 1..Len(d.items) : d.items[i] = Name(key)
      [] OTHER -> FALSE

\* Whether len(x) raises.
LenRaises(x) == x.kind \notin {"arr", "dict"}
LenOf(x) == IF x.kind = "arr" THEN Len(x.items) ELSE Cardinality(DOMAIN x.m)

\* d.get(key, default): dict.get, the stored value as it is, else the default.
Get(d, key, default) == IF key \in DOMAIN d.m THEN d.m[key] ELSE Name(default)
\* Only a dictionary has .get.
HasGet(d) == d.kind = "dict"

\* str(v), as an f-string formats it.
Show(v) ==
    CASE v.kind = "str"  -> v.s
      [] v.kind = "num"  -> ToString(v.n)
      [] v.kind = "ref"  -> "IndirectObject(" \o ToString(v.n) \o ", 0)"
      [] v.kind = "none" -> "None"
      [] OTHER -> "<" \o v.kind \o ">"

\* ------------------------------------------------------------ output lines
\* A printed line: which print statement, its formatted argument, and the count
\* of the "Found N signature field(s)" line.
Line(l, a)    == [l |-> l, a |-> a, n |-> 0]
UsageLine     == Line("Usage", "")
AcroFormLine  == Line("AcroForm", "")
FoundLine(n)  == [l |-> "Found", a |-> "", n |-> n]
NoSigLine     == Line("NoSignature", "")
HeaderLine    == Line("SignatureDetails", "")
ErrorLine(e)  == Line("Error", e)

\* The signature dictionary's keys in print order, each with its label and default.
SigKeys == << "/Filter", "/SubFilter", "/Reason", "/Location", "/M", "/Name" >>
SigLabel ==
    [k \in {SigKeys[i] : i \in 1..Len(SigKeys)} |->
       CASE k = "/Filter" -> "Filter" [] k = "/SubFilter" -> "SubFilter"
         [] k = "/Reason" -> "Reason" [] k = "/Location" -> "Location"
         [] k = "/M" -> "Date" [] k = "/Name" -> "Signer"]
SigDefaultAllUnknown(k) == "Unknown"
SigDefault(k) ==
    CASE k = "/Filter" -> "Unknown" [] k = "/SubFilter" -> "Unknown"
      [] k = "/Reason" -> "N/A" [] k = "/Location" -> "N/A"
      [] k = "/M" -> "N/A" [] k = "/Name" -> "Unknown"
FieldNameDefault == "Unknown"

FieldNameLine(f) == Line("Field Name", Show(Get(f, "/T", FieldNameDefault)))
DetailLines(sig) ==
    [i \in 1..Len(SigKeys) |->
       Line(SigLabel[SigKeys[i]], Show(Get(sig, SigKeys[i], SigDefault(SigKeys[i]))))]

\* ------------------------------------------------------- the input documents
\* Object numbers: 1 is the catalog, 2 the AcroForm; field i owns FieldObj(i),
\* its signature dictionary is SigObj(i) and AuxObj(i) is an extra object a
\* reference to the field may pass through.  No document has an object 0.
CatalogObj == 1
AcroFormObj == 2
MissingObj == 0
FieldObj(i) == 3 * i
SigObj(i) == 3 * i + 1
AuxObj(i) == 3 * i + 2

SigKeySet == {SigKeys[i] : i \in 1..Len(SigKeys)}
\* The text stored under a key of field i's dictionaries.
TextOf(k, i) ==
    CASE k = "/T" -> "Signature" \o ToString(i)
      [] k = "/Filter" -> "Adobe.PPKLite"
      [] k = "/SubFilter" -> "adbe.pkcs7.detached"
      [] k = "/Reason" -> "Approval" \o ToString(i)
      [] k = "/Location" -> "Office" \o ToString(i)
      [] k = "/M" -> "D:2024010" \o ToString(i)
      [] k = "/Name" -> "Signer" \o ToString(i)

\* A field of /Fields, by shape:
\*   via  how the array names it: "ref" (a reference to the field dictionary),
\*        "chain" (a reference to a reference to it), "direct" (the dictionary
\*        inline), "cycle" (two references naming each other), "dangling" (a
\*        reference to no object), "num" (a number where a field should be);
\*   ft   its /FT: "none" (no such key), "/Sig" or "/Tx";
\*   t    whether it has /T;
\*   v    its /V: "none", "num" (a number), "dangling", "self" (a reference back
\*        to the field), "cycle" (a reference to itself) or "dict" (a reference to
\*        a signature dictionary holding the keys in `keys`).
Shape(via, ft, t, v, keys) == [via |-> via, ft |-> ft, t |-> t, v |-> v, keys |-> keys]

\* The shapes every /Fields array of up to MaxFields fields is drawn from.
ArrayShapes ==
    {Shape(via, "none", FALSE, "none", {}) : via \in {"cycle", "dangling", "num", "ref"}}
    \cup {Shape("ref", "/Tx", TRUE, v, SigKeySet) : v \in {"none", "dict"}}
    \cup {Shape("ref", "/Sig", t, v, {}) :
            t \in BOOLEAN, v \in {"none", "num", "dangling", "self", "cycle", "dict"}}
    \cup {Shape("ref", "/Sig", t, "dict", keys) :
            t \in BOOLEAN, keys \in {SigKeySet, {"/Reason"}}}
    \cup {Shape(via, "/Sig", TRUE, "dict", SigKeySet) : via \in {"chain", "direct"}}
\* A lone signature field with any subset of the signature dictionary's keys.
LoneShapes == {Shape("ref", "/Sig", t, "dict", keys) : t \in BOOLEAN, keys \in SUBSET SigKeySet}

FieldV(i, sh) ==
    CASE sh.v = "num" -> Num(7)
      [] sh.v = "dangling" -> Ref(MissingObj)
      [] sh.v = "self" -> Ref(FieldObj(i))
      [] OTHER -> Ref(SigObj(i))
FieldDict(i, sh) ==
    Dict([k \in (IF sh.ft = "none" THEN {} ELSE {"/FT"})
                \cup (IF sh.t THEN {"/T"} ELSE {})
                \cup (IF sh.v = "none" THEN {} ELSE {"/V"}) |->
            CASE k = "/FT" -> Name(sh.ft)
              [] k = "/T" -> Name(TextOf("/T", i))
              [] k = "/V" -> FieldV(i, sh)])
SigDict(i, sh) == Dict([k \in sh.keys |-> Name(TextOf(k, i))])

\* What the /Fields array holds for field i.
FieldItem(i, sh) ==
    CASE sh.via = "ref" -> Ref(FieldObj(i))
      [] sh.via = "chain" -> Ref(AuxObj(i))
      [] sh.via = "cycle" -> Ref(AuxObj(i))
      [] sh.via = "dangling" -> Ref(MissingObj)
      [] sh.via = "num" -> Num(7)
      [] sh.via = "direct" -> FieldDict(i, sh)
\* The objects field i adds to the file.
FieldObjects(i, sh) ==
    (IF sh.via \in {"ref", "chain"} THEN FieldObj(i) :> FieldDict(i, sh)
     ELSE IF sh.via = "cycle" THEN FieldObj(i) :> Ref(AuxObj(i)) ELSE << >>)
    @@ (IF sh.via \in {"chain", "cycle"} THEN AuxObj(i) :> Ref(FieldObj(i)) ELSE << >>)
    @@ (IF sh.via \in {"ref", "chain", "direct"} /\ sh.v = "dict" THEN SigObj(i) :> SigDict(i, sh)
        ELSE IF sh.via \in {"ref", "chain", "direct"} /\ sh.v = "cycle"
        THEN SigObj(i) :> Ref(SigObj(i)) ELSE << >>)
RECURSIVE AllFieldObjects(_, _)
AllFieldObjects(shapes, i) ==
    IF i > Len(shapes) THEN << >>
    ELSE FieldObjects(i, shapes[i]) @@ AllFieldObjects(shapes, i + 1)

Document(trailer, objs) == [trailer |-> trailer, objs |-> objs]
RootTrailer == Dict("/Root" :> Ref(CatalogObj))
Catalog(acro) == CatalogObj :> Dict("/AcroForm" :> acro)
\* A document whose AcroForm's /Fields array holds the fields of these shapes.
FieldsDocument(shapes) ==
    Document(RootTrailer,
             Catalog(Ref(AcroFormObj))
             @@ (AcroFormObj :> Dict("/Fields" :>
                    Arr([i \in 1..Len(shapes) |-> FieldItem(i, shapes[i])])))
             @@ AllFieldObjects(shapes, 1))
\* Documents that end before any field is read.
PlainDocuments ==
    { Document(Dict(<< >>), << >>),                             \* a trailer without /Root
      Document(RootTrailer, CatalogObj :> Dict(<< >>)),         \* no /AcroForm
      Document(RootTrailer, Catalog(Num(7))),                   \* /AcroForm a number
      Document(RootTrailer, Catalog(Ref(MissingObj))),          \* /AcroForm dangling
      Document(RootTrailer, Catalog(Arr(<< >>))),               \* /AcroForm an array
      Document(RootTrailer, Catalog(Arr(<< Name("/Fields") >>))),
      Document(RootTrailer, Catalog(Ref(AcroFormObj)) @@ (AcroFormObj :> Ref(AcroFormObj))),
      Document(RootTrailer, Catalog(Ref(AcroFormObj)) @@ (AcroFormObj :> Dict(<< >>))),
      Document(RootTrailer, Catalog(Ref(AcroFormObj))
                            @@ (AcroFormObj :> Dict("/Fields" :> Num(7)))) }
Documents ==
    PlainDocuments
    \cup {FieldsDocument(shapes) :
            shapes \in UNION {[1..n -> ArrayShapes] : n \in 0..MaxFields}}
    \cup {FieldsDocument(<< sh >>) : sh \in LoneShapes}
NoDocument == Document(Dict(<< >>), << >>)

\* What a run is given: whether a path argument is on the command line, whether
\* the file opens and parses, and the document PdfReader then exposes.
Input(hasArg, file, doc) == [hasArg |-> hasArg, file |-> file, doc |-> doc]
Inputs ==
    { Input(FALSE, "ok", NoDocument),
      Input(TRUE, "missing", NoDocument),
      Input(TRUE, "corrupt", NoDocument) }
    \cup {Input(TRUE, "ok", d) : d \in Documents}

\* ------------------------------------------------------------------- state
VARIABLES
    input,      \* the command line and the file, fixed for the whole behaviour
    run,        \* 1 for the first invocation on the input, 2 for the second
    first,      \* what the first invocation printed, returned and exited with
    pc,         \* where the script is
    acroform,   \* verify_pdf_signature's local acroform
    fields,     \* its local fields
    idx,        \* the position of the for loop in fields (1-based)
    field,      \* its local field
    out,        \* the lines printed so far
    exc,        \* the exception being handled, "" when none was raised
    ret,        \* verify_pdf_signature's return value, "" before it returns
    exitCode    \* the process's exit code, -1 while it runs

vars == << input, run, first, pc, acroform, fields, idx, field, out, exc, ret, exitCode >>

doc == input.doc
NoResult == [out |-> << >>, ret |-> "", exitCode |-> -1]

\* The script as the interpreter starts it.
Fresh ==
    /\ pc = "main"
    /\ acroform = Unset
    /\ fields = Unset
    /\ idx = 0
    /\ field = Unset
    /\ out = << >>
    /\ exc = ""
    /\ ret = ""
    /\ exitCode = -1

Init ==
    /\ input \in Inputs
    /\ run = 1
    /\ first = NoResult
    /\ Fresh

\* An exception propagates to the except clause of verify_pdf_signature.
Raise(e) ==
    /\ exc' = e
    /\ pc' = "except"
    /\ UNCHANGED << acroform, fields, idx, field, out, ret >>

\* return v
Return(v) ==
    /\ ret' = v
    /\ pc' = "returned"

\* if len(sys.argv) < 2: print usage; sys.exit(1)
MainUsage ==
    /\ pc = "main"
    /\ ~input.hasArg
    /\ out' = Append(out, UsageLine)
    /\ exitCode' = 1
    /\ pc' = "exited"
    /\ UNCHANGED << input, run, first, acroform, fields, idx, field, exc, ret >>

\* verify_pdf_signature(sys.argv[1])
MainCall ==
    /\ pc = "main"
    /\ input.hasArg
    /\ pc' = "open"
    /\ UNCHANGED << input, run, first, acroform, fields, idx, field, out, exc, ret, exitCode >>

\* The script ends after the call, whose result it does not use.
ExitCodeAfter(v) == 0

\* The call returns and the script ends.
MainEnd ==
    /\ pc = "returned"
    /\ exitCode' = ExitCodeAfter(ret)
    /\ pc' = "exited"
    /\ UNCHANGED << input, run, first, acroform, fields, idx, field, out, exc, ret >>

\* with open(pdf_path, 'rb') as f: pdf_reader = PyPDF2.PdfReader(f)
OpenPdf ==
    /\ pc = "open"
    /\ CASE input.file = "missing" -> Raise("FileNotFoundError")
         [] input.file = "corrupt" -> Raise("PdfReadError")
         [] OTHER -> /\ pc' = "acroform"
                     /\ UNCHANGED << acroform, fields, idx, field, out, exc, ret >>
    /\ UNCHANGED << input, run, first, exitCode >>

\* The /AcroForm test with the key looked up whether or not it is there.
CheckAcroFormNoTest ==
    /\ pc = "acroform"
    /\ LET root == GetItem(doc.objs, doc.trailer, "/Root")
           acro == IF IsExc(root) THEN root ELSE GetItem(doc.objs, root, "/AcroForm")
       IN  IF IsExc(acro) THEN Raise(acro.e)
           ELSE /\ acroform' = acro
                /\ out' = Append(out, AcroFormLine)
                /\ pc' = "fields"
                /\ UNCHANGED << fields, idx, field, exc, ret >>
    /\ UNCHANGED << input, run, first, exitCode >>

\* if "/AcroForm" in pdf_reader.trailer["/Root"]: acroform = ...; print
\* else: print no signature; return False
CheckAcroForm ==
    /\ pc = "acroform"
    /\ LET root == GetItem(doc.objs, doc.trailer, "/Root")
       IN  IF IsExc(root) THEN Raise(root.e)
           ELSE IF InRaises(root) THEN Raise("TypeError")
           ELSE IF In("/AcroForm", root)
           THEN LET acro == GetItem(doc.objs, root, "/AcroForm")
                IN  IF IsExc(acro) THEN Raise(acro.e)
                    ELSE /\ acroform' = acro
                         /\ out' = Append(out, AcroFormLine)
                         /\ pc' = "fields"
                         /\ UNCHANGED << fields, idx, field, exc, ret >>
           ELSE /\ out' = Append(out, NoSigLine)
                /\ Return("False")
                /\ UNCHANGED << acroform, fields, idx, field, exc >>
    /\ UNCHANGED << input, run, first, exitCode >>

\* The /Fields lookup without the test for the key.
GetFieldsNoTest ==
    /\ pc = "fields"
    /\ LET fs == GetItem(doc.objs, acroform, "/Fields")
       IN  IF IsExc(fs) THEN Raise(fs.e)
           ELSE IF LenRaises(fs) THEN Raise("TypeError")
           ELSE /\ fields' = fs
                /\ out' = Append(out, FoundLine(LenOf(fs)))
                /\ idx' = 1
                /\ pc' = "loop"
                /\ UNCHANGED << acroform, field, exc, ret >>
    /\ UNCHANGED << input, run, first, exitCode >>

\* if "/Fields" in acroform: fields = acroform["/Fields"]; print len(fields)
\* and, without /Fields, the return True that follows the if.
GetFields ==
    /\ pc = "fields"
    /\ IF InRaises(acroform) THEN Raise("TypeError")
       ELSE IF In("/Fields", acroform)
       THEN LET fs == GetItem(doc.objs, acroform, "/Fields")
            IN  IF IsExc(fs) THEN Raise(fs.e)
                ELSE IF LenRaises(fs) THEN Raise("TypeError")
                ELSE /\ fields' = fs
                     /\ out' = Append(out, FoundLine(LenOf(fs)))
                     /\ idx' = 1
                     /\ pc' = "loop"
                     /\ UNCHANGED << acroform, field, exc, ret >>
       ELSE /\ Return("True")
            /\ UNCHANGED << acroform, fields, idx, field, out, exc >>
    /\ UNCHANGED << input, run, first, exitCode >>

RECURSIVE SetToSeq(_)
SetToSeq(S) == IF S = {} THEN << >>
               ELSE LET x == CHOOSE y \in S : TRUE IN << x >> \o SetToSeq(S \ {x})
\* What iterating x yields: an array's elements, a dictionary's keys.
ItemsOf(x) == IF x.kind = "arr" THEN x.items
              ELSE SetToSeq({Name(k) : k \in DOMAIN x.m})

\* The loop taking the elements from the end of the array.
ItemAtReversed(fs, i) == ItemsOf(fs)[LenOf(fs) + 1 - i]
\* for field_ref in fields: the loop's i-th element.
ItemAt(fs, i) == ItemsOf(fs)[i]

\* A test that takes every field type for a signature.
IsSignatureTypeAny(ft) == TRUE
\* field["/FT"] == "/Sig"
IsSignatureType(ft) == ft = Name("/Sig")

\* One turn of the loop: resolve the field and test its /FT; for a signature
\* field print the header and the field name, and go on to /V when it has one.
\* The loop ends after the last element, and return True follows it.
LoopField ==
    /\ pc = "loop"
    /\ IF idx > LenOf(fields)
       THEN /\ Return("True")
            /\ UNCHANGED << acroform, fields, idx, field, out, exc >>
       ELSE LET f  == Resolve(doc.objs, ItemAt(fields, idx), 0)
                ft == IF IsExc(f) THEN f ELSE GetItem(doc.objs, f, "/FT")
            IN  IF IsExc(ft) THEN Raise(ft.e)
                ELSE IF IsSignatureType(ft)
                THEN /\ field' = f
                     /\ out' = out \o << HeaderLine, FieldNameLine(f) >>
                     /\ IF In("/V", f)
                        THEN pc' = "sig" /\ idx' = idx
                        ELSE pc' = "loop" /\ idx' = idx + 1
                     /\ UNCHANGED << acroform, fields, exc, ret >>
                ELSE /\ field' = f
                     /\ idx' = idx + 1
                     /\ pc' = "loop"
                     /\ UNCHANGED << acroform, fields, out, exc, ret >>
    /\ UNCHANGED << input, run, first, exitCode >>

\* sig_dict = field["/V"].get_object() and the six prints of its entries.  None
\* has no get_object, and only a dictionary has get: AttributeError.
SigDetails ==
    /\ pc = "sig"
    /\ LET v == GetItem(doc.objs, field, "/V")
           sig == IF IsExc(v) \/ v.kind = "none" THEN v ELSE Resolve(doc.objs, v, 0)
       IN  IF IsExc(sig) THEN Raise(sig.e)
           ELSE IF ~HasGet(sig) THEN Raise("AttributeError")
           ELSE /\ out' = out \o DetailLines(sig)
                /\ idx' = idx + 1
                /\ pc' = "loop"
                /\ UNCHANGED << acroform, fields, field, exc, ret >>
    /\ UNCHANGED << input, run, first, exitCode >>

\* except Exception as e: print the error; return False
Except ==
    /\ pc = "except"
    /\ out' = Append(out, ErrorLine(exc))
    /\ Return("False")
    /\ UNCHANGED << input, run, first, acroform, fields, idx, field, exc, exitCode >>

\* A second invocation that goes on printing after the first one's lines.
AgainKeepingOutput ==
    /\ pc = "exited"
    /\ run = 1
    /\ run' = 2
    /\ first' = [out |-> out, ret |-> ret, exitCode |-> exitCode]
    /\ pc' = "main"
    /\ acroform' = Unset
    /\ fields' = Unset
    /\ idx' = 0
    /\ field' = Unset
    /\ exc' = ""
    /\ ret' = ""
    /\ exitCode' = -1
    /\ UNCHANGED << input, out >>

\* The script is run once more on the same command line and file: a new process,
\* which starts from the module's top with nothing kept from the first.
Again ==
    /\ pc = "exited"
    /\ run = 1
    /\ run' = 2
    /\ first' = [out |-> out, ret |-> ret, exitCode |-> exitCode]
    /\ pc' = "main"
    /\ acroform' = Unset
    /\ fields' = Unset
    /\ idx' = 0
    /\ field' = Unset
    /\ out' = << >>
    /\ exc' = ""
    /\ ret' = ""
    /\ exitCode' = -1
    /\ UNCHANGED input

Next ==
    \/ MainUsage
    \/ MainCall
    \/ OpenPdf
    \/ CheckAcroForm
    \/ GetFields
    \/ LoopField
    \/ SigDetails
    \/ Except
    \/ MainEnd
    \/ Again

Spec == Init /\ [][Next]_vars

\* ----------------------------------------------- the document, read statically
\* What the input document holds, independently of how far a run has read it.
DocRoot == GetItem(doc.objs, doc.trailer, "/Root")
HasAcroForm == DocRoot.kind = "dict" /\ "/AcroForm" \in DOMAIN DocRoot.m
NoAcroForm == input.hasArg /\ input.file = "ok" /\ DocRoot.kind = "dict" /\ ~HasAcroForm
DocAcroForm == GetItem(doc.objs, DocRoot, "/AcroForm")
AcroFormWithoutFields ==
    HasAcroForm /\ DocAcroForm.kind = "dict" /\ "/Fields" \notin DOMAIN DocAcroForm.m
DocFields == GetItem(doc.objs, DocAcroForm, "/Fields")
HasFieldsArray == HasAcroForm /\ DocAcroForm.kind = "dict" /\ DocFields.kind = "arr"
NumFields == IF HasFieldsArray THEN Len(DocFields.items) ELSE 0
FieldAt(i) == Resolve(doc.objs, DocFields.items[i], 0)
FieldType(i) == GetItem(doc.objs, FieldAt(i), "/FT")
IsSigField(i) == FieldAt(i).kind = "dict" /\ FieldType(i) = Name("/Sig")
IsOtherField(i) ==
    FieldAt(i).kind = "dict" /\ FieldType(i).kind = "str" /\ FieldType(i) # Name("/Sig")
HasV(i) == "/V" \in DOMAIN FieldAt(i).m
SigDictAt(i) == GetItem(doc.objs, FieldAt(i), "/V")
SigFields == {i \in 1..NumFields : IsSigField(i)}

\* The descriptors printed: one "Signature Details" header each.
HeaderCount(q) == Cardinality({j \in 1..Len(q) : q[j] = HeaderLine})
IsDescriptorLine(ln) == ln.l \notin {"Usage", "AcroForm", "Found", "NoSignature", "Error"}
DescriptorLines(q) == SelectSeq(q, IsDescriptorLine)
IsPrefix(p, q) == Len(p) <= Len(q) /\ SubSeq(q, 1, Len(p)) = p
Finished == pc \in {"returned", "exited"}

\* ------------------------------------------------------------------ claims

\* C1: the command-line run ends with exit code 1 without a file-path argument,
\* with exit code 0 when the PDF was read successfully, and with a non-zero exit
\* code, after an error message, when opening, parsing or extraction failed.
C1_ExitCodes ==
    pc = "exited" =>
        /\ ~input.hasArg => exitCode = 1
        /\ input.hasArg /\ exc = "" => exitCode = 0
        /\ input.hasArg /\ exc # "" =>
              /\ exitCode # 0
              /\ \E j \in 1..Len(out) : out[j] = ErrorLine(exc)

\* C2: for every PDF read without an error, verify_pdf_signature returns True
\* exactly when /Fields holds at least one field whose /FT is /Sig, and prints
\* "No signature found in PDF" and returns False exactly when it holds none.
C2_TrueIffSignatureField ==
    pc = "returned" /\ exc = "" =>
        /\ ret = "True" <=> SigFields # {}
        /\ (ret = "False" /\ \E j \in 1..Len(out) : out[j] = NoSigLine) <=> SigFields = {}

\* C3: a PDF whose root catalog has no /AcroForm yields no signature descriptor
\* and never enters the exception handler; it ends as an unsigned document, with
\* the "No signature found" line and the result False.
C3_NoAcroFormIsUnsigned ==
    NoAcroForm =>
        /\ exc = ""
        /\ pc # "except"
        /\ HeaderCount(out) = 0
        /\ Finished => ret = "False" /\ out = << NoSigLine >>
C3_Witness == NoAcroForm /\ pc = "returned" /\ ret = "False"

\* C4: a PDF whose AcroForm dictionary has no /Fields yields no signature
\* descriptor and finishes without an error.
C4_NoFieldsIsEmpty ==
    input.hasArg /\ input.file = "ok" /\ AcroFormWithoutFields =>
        /\ exc = ""
        /\ pc \notin {"except", "loop", "sig"}
        /\ HeaderCount(out) = 0
        /\ Finished => ret = "True" /\ out = << AcroFormLine >>
C4_Witness == AcroFormWithoutFields /\ pc = "returned" /\ ret = "True" /\ exc = ""

\* C5, as stated: for every /Fields array the number of descriptors printed by a
\* finished run equals the number of /Sig fields of the array.
C5_Original ==
    pc = "returned" /\ HasFieldsArray => HeaderCount(out) = Cardinality(SigFields)

\* C5, amended: while the loop runs, exactly the /Sig fields it has taken so far
\* have a descriptor, with or without /V, and no other field has one; a run that
\* ends without an error has printed one descriptor per /Sig field of the array,
\* and a run stopped by a field that raises has printed those of the /Sig fields
\* up to that field only.
C5_DescriptorPerSigField ==
    fields.kind = "arr" =>
        /\ HeaderCount(out) =
              Cardinality({i \in SigFields : i < idx \/ (i = idx /\ pc # "loop")})
        /\ Finished /\ exc = "" => HeaderCount(out) = Cardinality(SigFields)
C5_Witness ==
    /\ pc = "returned" /\ exc = "" /\ fields.kind = "arr"
    /\ \E i, j \in 1..NumFields : IsSigField(i) /\ ~HasV(i) /\ IsOtherField(j) /\ HasV(j)
    /\ HeaderCount(out) = 1

\* The lines a /Sig field's descriptor consists of: the header and the field
\* name, then the six details when its /V resolves to a dictionary.
DescriptorOf(i) ==
    << HeaderLine, FieldNameLine(FieldAt(i)) >>
    \o (IF HasV(i) /\ SigDictAt(i).kind = "dict" THEN DetailLines(SigDictAt(i)) ELSE << >>)
RECURSIVE DescriptorsFrom(_)
\* The descriptors of the /Sig fields from position i on, in /Fields order.
DescriptorsFrom(i) ==
    IF i > NumFields THEN << >>
    ELSE (IF IsSigField(i) THEN DescriptorOf(i) ELSE << >>) \o DescriptorsFrom(i + 1)

\* C6: descriptors are printed in the order of their fields in /Fields, each one
\* whole before the next begins, and the details under a descriptor are those of
\* its own field: at every moment the descriptor lines printed so far are the
\* beginning of the /Sig fields' descriptors laid end to end in array order, and
\* a run that ends without an error has printed all of them.
C6_ArrayOrder ==
    fields.kind = "arr" =>
        /\ IsPrefix(DescriptorLines(out), DescriptorsFrom(1))
        /\ Finished /\ exc = "" => DescriptorLines(out) = DescriptorsFrom(1)
C6_Witness ==
    /\ pc = "returned" /\ exc = "" /\ fields.kind = "arr"
    /\ NumFields >= 2 /\ IsSigField(1) /\ IsSigField(2)
    /\ HasV(1) /\ HasV(2) /\ SigDictAt(1) # SigDictAt(2)
    /\ Len(DescriptorLines(out)) = 16

\* The line printed for `key`: the text stored under it, else the sentinel.
Attribute(label, d, key, sentinel) ==
    Line(label, IF key \in DOMAIN d.m THEN d.m[key].s ELSE sentinel)
\* The loop has just printed the details of field i, a /Sig field whose /V is a
\* signature dictionary.
JustPrinted(i) ==
    /\ pc = "loop" /\ fields.kind = "arr" /\ idx = i + 1
    /\ i \in SigFields /\ HasV(i) /\ SigDictAt(i).kind = "dict"

Malformed ==
    \/ HasAcroForm /\ DocAcroForm.kind # "dict"
    \/ \E i \in 1..NumFields :
          \/ FieldAt(i).kind # "dict"
          \/ "/FT" \notin DOMAIN FieldAt(i).m
          \/ IsSigField(i) /\ HasV(i) /\ SigDictAt(i).kind # "dict"

\* C8: a field without /FT, or an /AcroForm or field value of the wrong type, is
\* an error and never skipped: the run ends with the error message and the
\* result False, whatever descriptors it printed before.
C8_MalformedIsError ==
    pc = "returned" /\ Malformed =>
        /\ exc # ""
        /\ ret = "False"
        /\ out[Len(out)] = ErrorLine(exc)

RECURSIVE Revisits(_, _)
\* Resolving v comes back to an object already on the way: a guard set of the
\* object numbers seen, followed along the references.
Revisits(v, seen) ==
    /\ v.kind = "ref"
    /\ v.n \in DOMAIN doc.objs
    /\ (v.n \in seen \/ Revisits(doc.objs[v.n], seen \cup {v.n}))

\* The run has resolved a circular reference: the /AcroForm entry, the element
\* of /Fields the loop stands at, or the /V of the signature field it stands at.
MetCycle ==
    \/ /\ pc \in {"fields", "loop", "sig", "except", "returned", "exited"}
       /\ HasAcroForm
       /\ Revisits(DocRoot.m["/AcroForm"], {})
    \/ /\ fields.kind = "arr" /\ idx \in 1..LenOf(fields)
       /\ pc \in {"sig", "except", "returned", "exited"}
       /\ Revisits(fields.items[idx], {})
    \/ /\ fields.kind = "arr" /\ idx \in 1..LenOf(fields)
       /\ pc \in {"except", "returned", "exited"}
       /\ IsSigField(idx) /\ HasV(idx)
       /\ Revisits(FieldAt(idx).m["/V"], {})

\* What is left of the two runs: the steps the current run can still take, plus
\* a whole run's worth when the second run is still to come.
StepsLeft ==
    CASE pc = "main" -> 2 * MaxFields + 7
      [] pc = "open" -> 2 * MaxFields + 6
      [] pc = "acroform" -> 2 * MaxFields + 5
      [] pc = "fields" -> 2 * MaxFields + 4
      [] pc = "loop" -> 2 * (LenOf(fields) + 1 - idx) + 3
      [] pc = "sig" -> 2 * (LenOf(fields) + 1 - idx) + 2
      [] pc = "except" -> 2
      [] pc = "returned" -> 1
      [] pc = "exited" -> 0
Measure == (2 - run) * (2 * MaxFields + 8) + StepsLeft

====
